---- MODULE Spec2Model ----
(***************************************************************************)
(* Attendance calculator (AttendanceCalculator.tsx, AttendanceChart,       *)
(* AttendanceInsights) as a state machine.                                  *)
(*                                                                         *)
(* The component state is `data`, `result`, `isExportDialogOpen` and the   *)
(* last toast.  All arithmetic of the handlers is JavaScript Number        *)
(* arithmetic (IEEE 754 binary64, round to nearest even); it is modelled   *)
(* exactly by the F* operators below, on arbitrary-precision naturals kept *)
(* as little-endian limb sequences (Big* operators).                       *)
(*                                                                         *)
(* Not modelled: the sign of zero (unobservable through the comparisons,   *)
(* Math.max, Math.floor/ceil and `|| 0` uses of the handlers), and the     *)
(* text of `message` beyond its template and embedded counts.              *)
(***************************************************************************)
EXTENDS Integers, Sequences, FiniteSets, TLC

----------------------------------------------------------------------------
(* Arbitrary-precision naturals: little-endian limbs, no high zero limb.   *)

LimbBits == 15
RADIX == 2 ^ LimbBits

Limb(x, i) == IF i <= Len(x) THEN x[i] ELSE 0

RECURSIVE BigTrim(_)
BigTrim(x) ==
  IF x = <<>> THEN <<>>
  ELSE IF x[Len(x)] = 0 THEN BigTrim(SubSeq(x, 1, Len(x) - 1)) ELSE x

RECURSIVE BigFromNat(_)
BigFromNat(n) ==
  IF n = 0 THEN <<>> ELSE <<n % RADIX>> \o BigFromNat(n \div RADIX)

RECURSIVE BigToNat(_)
BigToNat(x) ==
  IF x = <<>> THEN 0 ELSE x[1] + RADIX * BigToNat(Tail(x))

RECURSIVE BigAddFrom(_, _, _, _)
BigAddFrom(x, y, i, c) ==
  IF i > Len(x) /\ i > Len(y)
  THEN (IF c = 0 THEN <<>> ELSE <<c>>)
  ELSE LET s == Limb(x, i) + Limb(y, i) + c
       IN <<s % RADIX>> \o BigAddFrom(x, y, i + 1, s \div RADIX)

BigAdd(x, y) == BigAddFrom(x, y, 1, 0)

\* x - y for x >= y
RECURSIVE BigSubFrom(_, _, _, _)
BigSubFrom(x, y, i, b) ==
  IF i > Len(x) THEN <<>>
  ELSE LET s == x[i] - Limb(y, i) - b
       IN IF s < 0 THEN <<s + RADIX>> \o BigSubFrom(x, y, i + 1, 1)
                   ELSE <<s>> \o BigSubFrom(x, y, i + 1, 0)

BigSub(x, y) == BigTrim(BigSubFrom(x, y, 1, 0))

RECURSIVE BigCmpFrom(_, _, _)
BigCmpFrom(x, y, i) ==
  IF i = 0 THEN 0
  ELSE IF x[i] > y[i] THEN 1
  ELSE IF x[i] < y[i] THEN -1
  ELSE BigCmpFrom(x, y, i - 1)

BigCmp(x, y) ==
  IF Len(x) > Len(y) THEN 1
  ELSE IF Len(x) < Len(y) THEN -1
  ELSE BigCmpFrom(x, y, Len(x))

\* x * k for 0 <= k <= RADIX
RECURSIVE BigMulSmallFrom(_, _, _, _)
BigMulSmallFrom(x, k, i, c) ==
  IF i > Len(x) THEN (IF c = 0 THEN <<>> ELSE <<c>>)
  ELSE LET s == x[i] * k + c
       IN <<s % RADIX>> \o BigMulSmallFrom(x, k, i + 1, s \div RADIX)

BigMulSmall(x, k) == IF k = 0 THEN <<>> ELSE BigMulSmallFrom(x, k, 1, 0)

RECURSIVE BigMulFrom(_, _, _)
BigMulFrom(x, y, i) ==
  IF i > Len(y) THEN <<>>
  ELSE BigAdd(BigMulSmall(x, y[i]), <<0>> \o BigMulFrom(x, y, i + 1))

BigMul(x, y) == BigTrim(BigMulFrom(x, y, 1))

\* floor(x / k) for 1 <= k <= RADIX, from the high limb down
RECURSIVE BigDivSmallFrom(_, _, _, _)
BigDivSmallFrom(x, k, i, r) ==
  IF i = 0 THEN <<>>
  ELSE LET s == r * RADIX + x[i]
       IN BigDivSmallFrom(x, k, i - 1, s % k) \o <<s \div k>>

BigDivSmall(x, k) == BigTrim(BigDivSmallFrom(x, k, Len(x), 0))

Zeros(n) == [i \in 1..n |-> 0]

BigShl(x, n) ==
  IF x = <<>> THEN <<>>
  ELSE Zeros(n \div LimbBits) \o BigMulSmall(x, 2 ^ (n % LimbBits))

BigShr(x, n) ==
  IF n \div LimbBits >= Len(x) THEN <<>>
  ELSE BigDivSmall(SubSeq(x, n \div LimbBits + 1, Len(x)), 2 ^ (n % LimbBits))

RECURSIVE NatBitLen(_)
NatBitLen(n) == IF n = 0 THEN 0 ELSE 1 + NatBitLen(n \div 2)

BigBitLen(x) ==
  IF x = <<>> THEN 0 ELSE LimbBits * (Len(x) - 1) + NatBitLen(x[Len(x)])

\* bit i of x, bit 0 the least significant
BigBit(x, i) == (Limb(x, i \div LimbBits + 1) \div (2 ^ (i % LimbBits))) % 2

\* number of trailing zero bits of n # 0
RECURSIVE NatTrailingZeros(_)
NatTrailingZeros(n) == IF n % 2 = 1 THEN 0 ELSE 1 + NatTrailingZeros(n \div 2)

\* number of trailing zero bits of x # 0, from limb i up
RECURSIVE BigTrailingZerosFrom(_, _)
BigTrailingZerosFrom(x, i) ==
  IF x[i] = 0 THEN LimbBits + BigTrailingZerosFrom(x, i + 1)
  ELSE NatTrailingZeros(x[i])

BigTrailingZeros(x) == BigTrailingZerosFrom(x, 1)

\* long division over the bits hi..lo of n, one quotient bit per step,
\* entered with remainder r: <<quotient, remainder>>
RECURSIVE BigDivModBits(_, _, _, _, _)
BigDivModBits(n, d, hi, lo, r) ==
  IF hi < lo THEN <<(<<>>), r>>
  ELSE IF hi = lo
  THEN LET r2 == BigAdd(BigMulSmall(r, 2), BigFromNat(BigBit(n, hi)))
       IN IF BigCmp(r2, d) >= 0 THEN <<(<<1>>), BigSub(r2, d)>>
                                ELSE <<(<<>>), r2>>
  ELSE LET mid == (hi + lo) \div 2
           upper == BigDivModBits(n, d, hi, mid + 1, r)
           lower == BigDivModBits(n, d, mid, lo, upper[2])
       IN <<BigAdd(BigShl(upper[1], mid - lo + 1), lower[1]), lower[2]>>

\* x mod k for 1 <= k <= RADIX, from the high limb down
RECURSIVE BigModSmallFrom(_, _, _, _)
BigModSmallFrom(x, k, i, r) ==
  IF i = 0 THEN r ELSE BigModSmallFrom(x, k, i - 1, (r * RADIX + x[i]) % k)

\* <<floor(n / d), n mod d>> for d # 0; the high bits of n that are too few
\* to hold d enter the long division as its first remainder
BigDivMod(n, d) ==
  IF Len(d) = 1
  THEN <<BigDivSmall(n, d[1]), BigFromNat(BigModSmallFrom(n, d[1], Len(n), 0))>>
  ELSE LET steps == BigBitLen(n) - BigBitLen(d) + 1
       IN IF steps <= 0 THEN <<(<<>>), n>>
          ELSE BigDivModBits(n, d, steps - 1, 0, BigShr(n, steps))

----------------------------------------------------------------------------
(* JavaScript Number: NaN, +-Infinity, or the finite value s * m * 2^e     *)
(* with m odd (m = <<>>, s = 1, e = 0 for zero).                           *)

Precision == 53

FNaN == [kind |-> "nan", s |-> 1, m |-> <<>>, e |-> 0]
FInf(s) == [kind |-> "inf", s |-> s, m |-> <<>>, e |-> 0]
FZero == [kind |-> "num", s |-> 1, m |-> <<>>, e |-> 0]

\* the largest finite Number is below 2^MaxExponent; every finite Number is
\* a multiple of 2^MinExponent
MaxExponent == 1024
MinExponent == -1074

\* the canonical form of s * m * 2^e for a magnitude of at most Precision
\* bits; Infinity on overflow
FCanon(s, m, e) ==
  IF m = <<>> THEN FZero
  ELSE IF e + BigBitLen(m) > MaxExponent THEN FInf(s)
  ELSE LET z == BigTrailingZeros(m)
       IN [kind |-> "num", s |-> s, m |-> BigShr(m, z), e |-> e + z]

\* round s * (m + fraction) * 2^e to nearest, ties to even, keeping at most
\* Precision bits and no bit below 2^MinExponent; `sticky` says that a
\* non-zero fraction below m was dropped
FRound(s, m, e, sticky) ==
  LET over == BigBitLen(m) - Precision
      under == MinExponent - e
      d == IF over >= under /\ over > 0 THEN over
           ELSE IF under > 0 THEN under ELSE 0
  IN IF d = 0 THEN FCanon(s, m, e)
     ELSE LET q == BigShr(m, d)
              rem == BigSub(m, BigShl(q, d))
              c == BigCmp(rem, BigShl(<<1>>, d - 1))
              odd == q # <<>> /\ q[1] % 2 = 1
              up == c > 0 \/ (c = 0 /\ (sticky \/ odd))
          IN FCanon(s, IF up THEN BigAdd(q, <<1>>) ELSE q, e + d)

FFromInt(n) ==
  IF n < 0 THEN FCanon(-1, BigFromNat(-n), 0) ELSE FCanon(1, BigFromNat(n), 0)

FIsZero(x) == x.kind = "num" /\ x.m = <<>>
FNeg(x) == IF x.kind = "nan" \/ FIsZero(x) THEN x ELSE [x EXCEPT !.s = -x.s]

\* compare magnitudes of two finite non-zero values
FCmpMag(x, y) ==
  LET e == IF x.e < y.e THEN x.e ELSE y.e
  IN BigCmp(BigShl(x.m, x.e - e), BigShl(y.m, y.e - e))

\* -1, 0, 1 for two non-NaN values
FCmp(x, y) ==
  LET sx == IF FIsZero(x) THEN 0 ELSE x.s
      sy == IF FIsZero(y) THEN 0 ELSE y.s
  IN IF sx # sy THEN (IF sx < sy THEN -1 ELSE 1)
     ELSE IF sx = 0 THEN 0
     ELSE IF x.kind = "inf" /\ y.kind = "inf" THEN 0
     ELSE IF x.kind = "inf" THEN sx
     ELSE IF y.kind = "inf" THEN -sx
     ELSE sx * FCmpMag(x, y)

FGe(x, y) == x.kind # "nan" /\ y.kind # "nan" /\ FCmp(x, y) >= 0
FGt(x, y) == x.kind # "nan" /\ y.kind # "nan" /\ FCmp(x, y) > 0
FLt(x, y) == x.kind # "nan" /\ y.kind # "nan" /\ FCmp(x, y) < 0
FLe(x, y) == x.kind # "nan" /\ y.kind # "nan" /\ FCmp(x, y) <= 0

FAdd(x, y) ==
  IF x.kind = "nan" \/ y.kind = "nan" THEN FNaN
  ELSE IF x.kind = "inf"
       THEN (IF y.kind = "inf" /\ y.s # x.s THEN FNaN ELSE x)
  ELSE IF y.kind = "inf" THEN y
  ELSE IF FIsZero(x) THEN y
  ELSE IF FIsZero(y) THEN x
  ELSE LET e == IF x.e < y.e THEN x.e ELSE y.e
           mx == BigShl(x.m, x.e - e)
           my == BigShl(y.m, y.e - e)
           c == BigCmp(mx, my)
       IN IF x.s = y.s THEN FRound(x.s, BigAdd(mx, my), e, FALSE)
          ELSE IF c = 0 THEN FZero
          ELSE IF c > 0 THEN FRound(x.s, BigSub(mx, my), e, FALSE)
          ELSE FRound(y.s, BigSub(my, mx), e, FALSE)

FSub(x, y) == FAdd(x, FNeg(y))

FMul(x, y) ==
  IF x.kind = "nan" \/ y.kind = "nan" THEN FNaN
  ELSE IF x.kind = "inf" \/ y.kind = "inf"
       THEN (IF FIsZero(x) \/ FIsZero(y) THEN FNaN ELSE FInf(x.s * y.s))
  ELSE IF FIsZero(x) \/ FIsZero(y) THEN FZero
  ELSE FRound(x.s * y.s, BigMul(x.m, y.m), x.e + y.e, FALSE)

FDiv(x, y) ==
  IF x.kind = "nan" \/ y.kind = "nan" THEN FNaN
  ELSE IF x.kind = "inf"
       THEN (IF y.kind = "inf" THEN FNaN ELSE FInf(x.s * y.s))
  ELSE IF y.kind = "inf" THEN FZero
  ELSE IF FIsZero(y) THEN (IF FIsZero(x) THEN FNaN ELSE FInf(x.s))
  ELSE IF FIsZero(x) THEN FZero
  ELSE LET need == Precision + 2 + BigBitLen(y.m) - BigBitLen(x.m)
           k == IF need > 0 THEN need ELSE 0
           qr == BigDivMod(BigShl(x.m, k), y.m)
       IN FRound(x.s * y.s, qr[1], x.e - y.e - k, qr[2] # <<>>)

\* Math.floor, Math.ceil
MathFloor(x) ==
  IF x.kind # "num" \/ x.e >= 0 THEN x
  ELSE LET q == BigShr(x.m, -x.e)
       IN IF x.s = 1 THEN FCanon(1, q, 0) ELSE FCanon(-1, BigAdd(q, <<1>>), 0)

MathCeil(x) ==
  IF x.kind # "num" \/ x.e >= 0 THEN x
  ELSE LET q == BigShr(x.m, -x.e)
       IN IF x.s = 1 THEN FCanon(1, BigAdd(q, <<1>>), 0) ELSE FCanon(-1, q, 0)

\* Math.max, Math.abs
MathMax(x, y) ==
  IF x.kind = "nan" \/ y.kind = "nan" THEN FNaN
  ELSE IF FCmp(x, y) >= 0 THEN x ELSE y

\* a Number that is an integer, and its value
FIsInt(x) == x.kind = "num" /\ x.e >= 0
FToInt(x) == x.s * BigToNat(BigShl(x.m, x.e))

----------------------------------------------------------------------------
(* parseInt(value) of updateData, on a text given as a tuple of characters.*)
(* A character is a one-character string; a character that has no TLA+     *)
(* string escape is written by its code point ("U+00A0").                  *)

\* StrWhiteSpaceChar: WhiteSpace and LineTerminator
WhiteSpaceChars ==
  { " ", "\t", "\n", "\r", "\f", "U+000B", "U+00A0", "U+FEFF", "U+1680",
    "U+2000", "U+2001", "U+2002", "U+2003", "U+2004", "U+2005", "U+2006",
    "U+2007", "U+2008", "U+2009", "U+200A", "U+2028", "U+2029", "U+202F",
    "U+205F", "U+3000" }

Digits ==
  <<"0", "1", "2", "3", "4", "5", "6", "7", "8", "9",
    "a", "b", "c", "d", "e", "f">>
UpperDigits ==
  <<"0", "1", "2", "3", "4", "5", "6", "7", "8", "9",
    "A", "B", "C", "D", "E", "F">>

IsDigit(ch, radix) ==
  \E i \in 1..radix : Digits[i] = ch \/ UpperDigits[i] = ch
DigitValue(ch, radix) ==
  (CHOOSE i \in 1..radix : Digits[i] = ch \/ UpperDigits[i] = ch) - 1

\* text without its leading white space
SkipWhite(text) ==
  LET first == CHOOSE i \in 1..(Len(text) + 1) :
                 /\ i = Len(text) + 1 \/ text[i] \notin WhiteSpaceChars
                 /\ \A j \in 1..(i - 1) : text[j] \in WhiteSpaceChars
  IN SubSeq(text, first, Len(text))

\* length of the longest prefix of text made of digits of the radix
DigitCount(text, radix) ==
  LET stop == CHOOSE i \in 1..(Len(text) + 1) :
                /\ i = Len(text) + 1 \/ ~IsDigit(text[i], radix)
                /\ \A j \in 1..(i - 1) : IsDigit(text[j], radix)
  IN stop - 1

RECURSIVE BigPow(_, _)
BigPow(b, n) ==
  IF n = 0 THEN <<1>>
  ELSE LET half == BigPow(b, n \div 2)
           square == BigMul(half, half)
       IN IF n % 2 = 1 THEN BigMulSmall(square, b) ELSE square

\* the mathematical integer written by the digits lo..hi of text
RECURSIVE DigitsValue(_, _, _, _)
DigitsValue(text, lo, hi, radix) ==
  IF lo > hi THEN <<>>
  ELSE IF lo = hi THEN BigFromNat(DigitValue(text[lo], radix))
  ELSE LET mid == (lo + hi) \div 2
       IN BigAdd(BigMul(DigitsValue(text, lo, mid, radix),
                        BigPow(radix, hi - mid)),
                 DigitsValue(text, mid + 1, hi, radix))

\* the mathematical integer written by the longest digit prefix of text
DigitPrefix(text, radix) ==
  BigTrim(DigitsValue(text, 1, DigitCount(text, radix), radix))

\* parseInt without a radix argument: white space skipped, an optional
\* sign, radix 16 after 0x or 0X and 10 otherwise, the longest digit prefix
\* rounded to a Number; NaN when there is no digit
parseInt(value) ==
  LET t == SkipWhite(value)
      sign == IF t # <<>> /\ t[1] = "-" THEN -1 ELSE 1
      unsigned == IF t # <<>> /\ t[1] \in {"-", "+"} THEN Tail(t) ELSE t
      hex == /\ Len(unsigned) >= 2
             /\ unsigned[1] = "0"
             /\ unsigned[2] \in {"x", "X"}
      radix == IF hex THEN 16 ELSE 10
      body == IF hex THEN SubSeq(unsigned, 3, Len(unsigned)) ELSE unsigned
  IN IF DigitCount(body, radix) = 0 THEN FNaN
     ELSE FRound(sign, DigitPrefix(body, radix), 0, FALSE)

\* parseInt(value) || 0
numValue(value) ==
  LET n == parseInt(value)
  IN IF n.kind = "nan" \/ FIsZero(n) THEN FFromInt(0) ELSE n

----------------------------------------------------------------------------
(* State of the AttendanceCalculator component                             *)

\* resultInput is a history variable: the `data` the stored result was
\* computed from (null while no result is stored)
VARIABLES data, result, isExportDialogOpen, toast, resultInput

vars == <<data, result, isExportDialogOpen, toast, resultInput>>

Fields == {"totalClasses", "attendedClasses", "targetPercentage"}

null == [isNull |-> TRUE]
noToast == [title |-> "", description |-> ""]

InitialData ==
  [totalClasses |-> FFromInt(0), attendedClasses |-> FFromInt(0),
   targetPercentage |-> FFromInt(75)]

----------------------------------------------------------------------------
(* calculateAttendance                                                     *)

totalNotPositive(d) == FLe(d.totalClasses, FFromInt(0))

\* the comparison with its operands exchanged
attendedExceedsTotal_Swapped(d) == FGt(d.totalClasses, d.attendedClasses)

attendedExceedsTotal(d) == FGt(d.attendedClasses, d.totalClasses)

\* (attendedClasses / totalClasses) * 100
currentPercentage(d) ==
  FMul(FDiv(d.attendedClasses, d.totalClasses),
       FFromInt(100))

\* Math.max(0, Math.ceil((target * total - 100 * attended) / (100 - target)))
classesNeededFor(target, d) ==
  MathMax(FFromInt(0),
          MathCeil(FDiv(FSub(FMul(target, d.totalClasses),
                             FMul(FFromInt(100), d.attendedClasses)),
                        FSub(FFromInt(100), target))))

classesToAttend(d) == classesNeededFor(d.targetPercentage, d)

\* the surplus multiplied by the target fraction instead of divided by it
maxMissableClasses_Times(d) ==
  LET fraction == FDiv(d.targetPercentage, FFromInt(100))
  IN MathFloor(FMul(FSub(d.attendedClasses,
                         FMul(fraction, d.totalClasses)),
                    fraction))

\* Math.floor((attended - (target / 100) * total) / (target / 100))
maxMissableClasses(d) ==
  LET fraction == FDiv(d.targetPercentage, FFromInt(100))
  IN MathFloor(FDiv(FSub(d.attendedClasses,
                         FMul(fraction, d.totalClasses)),
                    fraction))

classesToBunk(d) == MathMax(FFromInt(0), maxMissableClasses(d))

\* the safe band entered only strictly above the target
statusOf_Strict(current, target) ==
  IF FGt(current, target) THEN "safe"
  ELSE IF FGe(current, FSub(target, FFromInt(5))) THEN "warning"
  ELSE "danger"

statusOf(current, target) ==
  IF FGe(current, target) THEN "safe"
  ELSE IF FGe(current, FSub(target, FFromInt(5))) THEN "warning"
  ELSE "danger"

\* the template of the message and the count it embeds
messageOf(status, toAttend, toBunk) ==
  IF status = "safe" THEN [template |-> "Great", classes |-> toBunk]
  ELSE IF status = "warning" THEN [template |-> "Close", classes |-> toAttend]
  ELSE [template |-> "Critical", classes |-> toAttend]

computeResult(d) ==
  LET current == currentPercentage(d)
      toAttend == classesToAttend(d)
      toBunk == classesToBunk(d)
      status == statusOf(current, d.targetPercentage)
  IN [isNull |-> FALSE,
      currentPercentage |-> current,
      status |-> status,
      classesToAttend |-> toAttend,
      classesToBunk |-> toBunk,
      message |-> messageOf(status, toAttend, toBunk)]

calculateAttendance ==
  /\ IF totalNotPositive(data)
     THEN /\ toast' = [title |-> "Invalid Input",
                       description |-> "Total classes must be greater than 0"]
          /\ UNCHANGED <<result, resultInput>>
     ELSE IF attendedExceedsTotal(data)
     THEN /\ toast' = [title |-> "Invalid Input",
                       description |-> "Attended classes cannot exceed total classes"]
          /\ UNCHANGED <<result, resultInput>>
     ELSE /\ result' = computeResult(data)
          /\ resultInput' = data
          /\ toast' = [title |-> "Calculation Complete",
                       description |-> "Current attendance"]
  /\ UNCHANGED <<data, isExportDialogOpen>>

\* disabled={!data.totalClasses || !data.attendedClasses}
Falsy(n) == n.kind = "nan" \/ FIsZero(n)

calculateDisabled(d) == Falsy(d.totalClasses) \/ Falsy(d.attendedClasses)

Calculate ==
  /\ ~calculateDisabled(data)
  /\ calculateAttendance

\* the reset without setResult(null)
resetCalculator_KeepsResult ==
  /\ data' = [totalClasses |-> FFromInt(0), attendedClasses |-> FFromInt(0),
              targetPercentage |-> FFromInt(75)]
  /\ toast' = [title |-> "Calculator Reset",
               description |-> "All fields have been cleared"]
  /\ UNCHANGED <<result, resultInput, isExportDialogOpen>>

resetCalculator ==
  /\ data' = [totalClasses |-> FFromInt(0), attendedClasses |-> FFromInt(0),
              targetPercentage |-> FFromInt(75)]
  /\ result' = null
  /\ resultInput' = null
  /\ toast' = [title |-> "Calculator Reset",
               description |-> "All fields have been cleared"]
  /\ UNCHANGED isExportDialogOpen

updateData(field, value) ==
  /\ data' = [data EXCEPT ![field] = numValue(value)]
  /\ UNCHANGED <<result, isExportDialogOpen, toast, resultInput>>

\* the Share button, rendered only with a result
Share ==
  /\ ~result.isNull
  /\ isExportDialogOpen' = TRUE
  /\ UNCHANGED <<data, result, toast, resultInput>>

\* onOpenChange of the export dialog closing it
CloseExportDialog ==
  /\ isExportDialogOpen
  /\ isExportDialogOpen' = FALSE
  /\ UNCHANGED <<data, result, toast, resultInput>>

----------------------------------------------------------------------------
(* AttendanceChart: the future scenarios; AttendanceInsights: the custom   *)
(* target insights.  Both are rendered from `data` whenever a result is    *)
(* stored.                                                                 *)

scenarioClasses == <<5, 10, -3, -5>>

MathAbsInt(n) == IF n < 0 THEN -n ELSE n

\* missed classes subtracted from the attended count
newAttendedOf_Signed(d, classes) ==
  FAdd(d.attendedClasses, FFromInt(classes))

newAttendedOf(d, classes) ==
  FAdd(d.attendedClasses, MathMax(FFromInt(0), FFromInt(classes)))

newTotalOf(d, classes) ==
  FAdd(d.totalClasses, FFromInt(MathAbsInt(classes)))

scenarioStatus(percentage, target) ==
  IF FGe(percentage, target) THEN "safe" ELSE "danger"

scenarioOf(d, classes) ==
  LET newPercentage ==
        FMul(FDiv(newAttendedOf(d, classes), newTotalOf(d, classes)),
             FFromInt(100))
  IN [classes |-> classes,
      percentage |-> newPercentage,
      status |-> scenarioStatus(newPercentage, d.targetPercentage)]

futureAttendanceScenarios(d) ==
  [i \in 1..Len(scenarioClasses) |-> scenarioOf(d, scenarioClasses[i])]

candidateTargets == <<80, 85, 90, 95>>

customTargets(d) ==
  LET above(target) == FGt(FFromInt(target), d.targetPercentage)
  IN SelectSeq(candidateTargets, above)

insightOf(d, target) ==
  LET classesNeeded == classesNeededFor(FFromInt(target), d)
  IN [target |-> target,
      classesNeeded |-> classesNeeded,
      type |-> IF FGt(classesNeeded, FFromInt(0)) THEN "info" ELSE "success"]

targetInsights(d) ==
  LET targets == customTargets(d)
      shown == IF Len(targets) < 2 THEN Len(targets) ELSE 2
  IN [i \in 1..shown |-> insightOf(d, targets[i])]

----------------------------------------------------------------------------
(* Specifications                                                          *)

\* texts handed to updateData for the three inputs: empty, no digit after
\* the hex prefix, a sign, a fraction, leading white space, a hex numeral
\* and a numeral that is not a binary64 value (2^53 + 1)
Texts ==
  { <<>>, <<"0", "x">>, <<"-", "3">>, <<"5", "7", ".", "9">>,
    <<"\t", "\n", " ", "5", "7">>, <<"0", "X", "3", "9">>,
    <<"9", "0", "0", "7", "1", "9", "9", "2", "5", "4", "7", "4", "0", "9",
      "9", "3">> }

Init ==
  /\ data = InitialData
  /\ result = null
  /\ isExportDialogOpen = FALSE
  /\ toast = noToast
  /\ resultInput = null

Edit == \E field \in Fields, value \in Texts : updateData(field, value)

Next ==
  \/ Edit
  \/ Calculate
  \/ resetCalculator
  \/ Share
  \/ CloseExportDialog

Spec == Init /\ [][Next]_vars

\* calculateAttendance applied to every valid input up to MaxTotal classes,
\* and to the worked examples
MaxTotal == 8

\* the input data holding the given counts as Numbers
InputOf(total, attended, target) ==
  [totalClasses |-> FFromInt(total), attendedClasses |-> FFromInt(attended),
   targetPercentage |-> FFromInt(target)]

ExampleInputs ==
  { InputOf(50, 40, 75), InputOf(50, 30, 75), InputOf(20, 14, 75),
    InputOf(100, 57, 57), InputOf(95, 52, 57) }

ValidInput(d) ==
  /\ FGt(d.totalClasses, FFromInt(0))
  /\ FGe(d.attendedClasses, FFromInt(0))
  /\ FLe(d.attendedClasses, d.totalClasses)
  /\ FGt(d.targetPercentage, FFromInt(0))
  /\ FLt(d.targetPercentage, FFromInt(100))

PureInputs ==
  { d \in { InputOf(total, attended, target) :
              total \in 1..MaxTotal, attended \in 0..MaxTotal,
              target \in 1..99 } : ValidInput(d) } \cup ExampleInputs

InitPure ==
  /\ data \in PureInputs
  /\ result = null
  /\ isExportDialogOpen = FALSE
  /\ toast = noToast
  /\ resultInput = null

\* one application of the callback to the drawn input
NextPure ==
  /\ result.isNull
  /\ calculateAttendance

SpecPure == InitPure /\ [][NextPure]_vars

----------------------------------------------------------------------------
(* Properties                                                              *)

\* the Number p equals scale * num / den, for finite Numbers num and
\* den > 0, up to the rounding of two operations:
\* |p * den - scale * num| * 2^ToleranceBits <= |scale * num|
ToleranceBits == Precision - 2

FApproxRatio(p, scale, num, den) ==
  /\ p.kind = "num" /\ num.kind = "num" /\ den.kind = "num"
  /\ ~FIsZero(den) /\ den.s = 1
  /\ IF FIsZero(num) THEN FIsZero(p)
     ELSE /\ ~FIsZero(p)
          /\ p.s = num.s
          /\ LET left == p.e + den.e
                 low == IF left < num.e THEN left ELSE num.e
                 lhs == BigShl(BigMul(p.m, den.m), left - low)
                 rhs == BigShl(BigMulSmall(num.m, scale), num.e - low)
                 diff == IF BigCmp(lhs, rhs) >= 0 THEN BigSub(lhs, rhs)
                                                  ELSE BigSub(rhs, lhs)
             IN BigCmp(BigShl(diff, ToleranceBits), rhs) <= 0

IsNonNegativeInteger(x) == FIsInt(x) /\ (FIsZero(x) \/ x.s = 1)

\* C1: a Calculate taken when totalClasses <= 0 or attendedClasses >
\* totalClasses is rejected with an Invalid Input toast: the stored result
\* (null or a prior result) and the input data are what they were before.
C1_RejectedCalculateKeepsState ==
  [][ ((FLe(data.totalClasses, FFromInt(0))
        \/ FGt(data.attendedClasses, data.totalClasses))
       /\ Calculate)
      => (/\ result' = result
          /\ data' = data
          /\ toast'.title = "Invalid Input") ]_vars

\* a rejected Calculate has acted while a prior result was stored
C1_Witness ==
  /\ toast.title = "Invalid Input"
  /\ ~result.isNull
  /\ FGt(data.totalClasses, FFromInt(0))
  /\ FGt(data.attendedClasses, data.totalClasses)

\* C2: a Calculate taken when targetPercentage <= 0 or targetPercentage >=
\* 100 fails with Invalid Input and stores no result (so neither division
\* is evaluated with a zero divisor).
C2_TargetOutOfRangeRejected ==
  [][ ((FLe(data.targetPercentage, FFromInt(0))
        \/ FGe(data.targetPercentage, FFromInt(100)))
       /\ Calculate)
      => (/\ result' = result
          /\ toast'.title = "Invalid Input") ]_vars

\* C3: a Calculate taken when attendedClasses is outside [0, totalClasses],
\* a negative attendedClasses included, fails with Invalid Input and stores
\* no result.
C3_AttendedOutOfRangeRejected ==
  [][ ((FLt(data.attendedClasses, FFromInt(0))
        \/ FGt(data.attendedClasses, data.totalClasses))
       /\ Calculate)
      => (/\ result' = result
          /\ toast'.title = "Invalid Input") ]_vars

\* C4: in every reachable state a stored result satisfies the
\* AttendanceResult data model: currentPercentage is 100 * attendedClasses /
\* totalClasses of the input it was computed from and lies in [0, 100],
\* status is safe, warning or danger, and classesToAttend and classesToBunk
\* are non-negative integers.
C4_StoredResultWellFormed ==
  ~result.isNull =>
    /\ FGt(resultInput.totalClasses, FFromInt(0))
    /\ FApproxRatio(result.currentPercentage, 100,
                    resultInput.attendedClasses, resultInput.totalClasses)
    /\ FGe(result.currentPercentage, FFromInt(0))
    /\ FLe(result.currentPercentage, FFromInt(100))
    /\ result.status \in {"safe", "warning", "danger"}
    /\ IsNonNegativeInteger(result.classesToAttend)
    /\ IsNonNegativeInteger(result.classesToBunk)

\* the counts of a valid input, as integers
CountsOf(d) ==
  [totalClasses |-> FToInt(d.totalClasses),
   attendedClasses |-> FToInt(d.attendedClasses),
   targetPercentage |-> FToInt(d.targetPercentage)]

\* the natural number held by a non-negative integer-valued Number
BigOfNumber(x) == IF FIsZero(x) THEN <<>> ELSE BigShl(x.m, x.e)

\* 100 * (attended + k) >= target * (total + k), on naturals
MeetsTarget(k, target, attended, total) ==
  BigCmp(BigMulSmall(BigAdd(attended, k), 100),
         BigMul(target, BigAdd(total, k))) >= 0

\* the Number k is the smallest non-negative integer with
\* 100 * (attended + k) >= target * (total + k), in exact arithmetic
IsLeastClassesNeeded(k, target, d) ==
  /\ IsNonNegativeInteger(k)
  /\ LET attended == BigOfNumber(d.attendedClasses)
         total == BigOfNumber(d.totalClasses)
         n == BigOfNumber(k)
     IN /\ MeetsTarget(n, target, attended, total)
        /\ n # <<>> => ~MeetsTarget(BigSub(n, <<1>>), target, attended, total)

Computed == ~result.isNull /\ ValidInput(data)

\* C5: for every valid input, classesToAttend is the smallest non-negative
\* integer k with 100 * (attendedClasses + k) >= targetPercentage *
\* (totalClasses + k): k satisfies it and, when k > 0, k - 1 does not.  The
\* input is the one the stored result was computed from.
C5_ClassesToAttendIsLeast ==
  (~result.isNull /\ ValidInput(resultInput)) =>
    IsLeastClassesNeeded(result.classesToAttend,
                         BigOfNumber(resultInput.targetPercentage),
                         resultInput)

\* C6: for every valid input, classesToBunk is the largest non-negative
\* integer m with 100 * attendedClasses >= targetPercentage * (totalClasses
\* + m): m + 1 violates the inequality, and m satisfies it wherever some m
\* does (attendance at or above the target; below it the count is floored
\* at 0).
C6_ClassesToBunkIsLargest ==
  Computed =>
    /\ FIsInt(result.classesToBunk)
    /\ LET m == FToInt(result.classesToBunk)
           a == CountsOf(data).attendedClasses
           t == CountsOf(data).totalClasses
           target == CountsOf(data).targetPercentage
       IN /\ m >= 0
          /\ 100 * a >= target * t => 100 * a >= target * (t + m)
          /\ 100 * a < target * (t + m + 1)

\* C7: for every valid input the status is safe when currentPercentage >=
\* targetPercentage, warning when targetPercentage - 5 <= currentPercentage
\* < targetPercentage, danger when currentPercentage < targetPercentage - 5;
\* attendedClasses = totalClasses gives currentPercentage 100 and safe.
C7_StatusBands ==
  Computed =>
    LET current == result.currentPercentage
        target == data.targetPercentage
        edge == FFromInt(CountsOf(data).targetPercentage - 5)
    IN /\ result.status = "safe" <=> FGe(current, target)
       /\ result.status = "warning" <=> (FGe(current, edge) /\ FLt(current, target))
       /\ result.status = "danger" <=> FLt(current, edge)
       /\ data.attendedClasses = data.totalClasses
            => (current = FFromInt(100) /\ result.status = "safe")

\* attendance exactly at the target has been computed (3 of 4 at 75)
C7_Witness ==
  /\ Computed
  /\ data = InputOf(4, 3, 75)
  /\ result.currentPercentage = FFromInt(75)
  /\ result.status = "safe"

\* C8: for fixed totalClasses and attendedClasses, raising a valid target
\* never lowers classesToAttend and never raises classesToBunk.  Targets are
\* integers; the step from each target to the next one is checked, for every
\* target, which chains to any two targets t1 <= t2.
C8_MonotoneInTarget ==
  (Computed /\ FLt(data.targetPercentage, FFromInt(99))) =>
    LET higher == [data EXCEPT !.targetPercentage =
                     FFromInt(CountsOf(data).targetPercentage + 1)]
    IN /\ FGe(classesToAttend(higher), result.classesToAttend)
       /\ FLe(classesToBunk(higher), result.classesToBunk)

\* example 1 has been computed: 3 classes may be missed at 75, 2 at 76
C8_Witness ==
  /\ Computed
  /\ data = InputOf(50, 40, 75)
  /\ result.classesToBunk = FFromInt(3)
  /\ classesToBunk(InputOf(50, 40, 76)) = FFromInt(2)

\* C9: the chart projects the deltas +5, +10, -3, -5 in that order, each on
\* its own: resultingPercentage = 100 * (attendedClasses + max(0, delta)) /
\* (totalClasses + |delta|), marked safe exactly when resultingPercentage >=
\* targetPercentage and danger otherwise.
C9_ScenarioProjection ==
  Computed =>
    LET shown == futureAttendanceScenarios(data)
        deltas == <<5, 10, -3, -5>>
    IN /\ Len(shown) = 4
       /\ \A i \in 1..4 :
            LET delta == deltas[i]
                gained == IF delta > 0 THEN delta ELSE 0
                added == IF delta < 0 THEN -delta ELSE delta
            IN /\ shown[i].classes = delta
               /\ FApproxRatio(shown[i].percentage, 100,
                               FFromInt(CountsOf(data).attendedClasses + gained),
                               FFromInt(CountsOf(data).totalClasses + added))
               /\ shown[i].status \in {"safe", "danger"}
               /\ shown[i].status = "safe"
                    <=> FGe(shown[i].percentage, data.targetPercentage)

\* example 1 is charted: 45/55, 50/60 and 40/53 meet 75, 40/55 does not
C9_Witness ==
  /\ Computed
  /\ data = InputOf(50, 40, 75)
  /\ LET shown == futureAttendanceScenarios(data)
     IN <<shown[1].status, shown[2].status, shown[3].status, shown[4].status>>
          = <<"safe", "safe", "safe", "danger">>

\* C10: the insights evaluate only candidate targets T with targetPercentage
\* < T < 100, at most the two smallest of 80, 85, 90, 95 above the current
\* target in ascending order; classesNeeded is the smallest non-negative k
\* with 100 * (attendedClasses + k) >= T * (totalClasses + k), and the
\* target is reported as already achieved exactly when classesNeeded is 0.
C10_HigherTargetInsights ==
  Computed =>
    LET shown == targetInsights(data)
        candidates == {c \in {80, 85, 90, 95} :
                         FGt(FFromInt(c), data.targetPercentage)}
        targetsShown == {shown[i].target : i \in 1..Len(shown)}
    IN /\ Len(shown) = IF Cardinality(candidates) < 2
                       THEN Cardinality(candidates) ELSE 2
       /\ targetsShown \subseteq candidates
       /\ \A c \in candidates \ targetsShown : \A T \in targetsShown : T < c
       /\ \A i \in 1..Len(shown) :
            /\ FLt(data.targetPercentage, FFromInt(shown[i].target))
            /\ shown[i].target < 100
            /\ i > 1 => shown[i - 1].target < shown[i].target
            /\ IsLeastClassesNeeded(shown[i].classesNeeded,
                                    BigFromNat(shown[i].target), data)
            /\ shown[i].type = "success" <=> FIsZero(shown[i].classesNeeded)
            /\ shown[i].type \in {"success", "info"}

\* C11: in every reachable state with a stored result, that result is the
\* one calculateAttendance computes from the current input data: no sequence
\* of edits, Calculate and Reset leaves a result derived from other data than
\* the data handed with it to the chart and the insights.
C11_ResultMatchesData ==
  ~result.isNull => (resultInput = data /\ result = computeResult(data))

\* C12: for every valid input the result is consistent: status is safe if
\* and only if classesToAttend is 0, classesToBunk > 0 implies safe, and
\* classesToAttend and classesToBunk are never both positive.
C12_ResultFieldsConsistent ==
  Computed =>
    /\ result.status = "safe" <=> FIsZero(result.classesToAttend)
    /\ FGt(result.classesToBunk, FFromInt(0)) => result.status = "safe"
    /\ ~(FGt(result.classesToAttend, FFromInt(0))
         /\ FGt(result.classesToBunk, FFromInt(0)))

\* C13: Calculate is enabled in every state whose input data is valid
\* (totalClasses > 0, 0 <= attendedClasses <= totalClasses, 0 <
\* targetPercentage < 100), attendedClasses = 0 included.
C13_CalculateEnabledOnValidInput ==
  (/\ FGt(data.totalClasses, FFromInt(0))
   /\ FGe(data.attendedClasses, FFromInt(0))
   /\ FLe(data.attendedClasses, data.totalClasses)
   /\ FGt(data.targetPercentage, FFromInt(0))
   /\ FLt(data.targetPercentage, FFromInt(100))) => ENABLED Calculate

\* C14: from any reachable state Reset restores the initial input data
\* (totalClasses 0, attendedClasses 0, targetPercentage 75) and clears the
\* result to null; in that state Share is unavailable and no Calculate, by
\* the button or by the callback, stores a result.
C14_ResetRestoresInitialState ==
  /\ [][ resetCalculator
         => (/\ data' = InputOf(0, 0, 75)
             /\ result' = [isNull |-> TRUE]) ]_vars
  /\ []( (/\ data = InputOf(0, 0, 75)
          /\ result = [isNull |-> TRUE])
         => (/\ ~ENABLED Share
             /\ ~ENABLED Calculate
             /\ ~ENABLED (calculateAttendance /\ ~result'.isNull)) )

\* Reset has acted: its toast is up over the initial data and no result
C14_Witness ==
  /\ toast.title = "Calculator Reset"
  /\ data = InputOf(0, 0, 75)
  /\ result.isNull

====
